---- MODULE Spec2Model ----
(***************************************************************************)
(* GLR Pipeline (src/Input.py): placeholder detection, LLM response        *)
(* parsing and template filling, and the run started by the process        *)
(* button.  Text is a sequence of one-character strings, so that substring *)
(* search, str.replace, the regular expressions and json.loads are         *)
(* computed character by character, as the code computes them.             *)
(***************************************************************************)
EXTENDS Integers, Sequences, FiniteSets, TLC

VARIABLES
    pc,              \* position in the run (or in the harness of a pure function)
    templateBytes,   \* the uploaded template: the document its bytes decode to
    filePos,         \* read position of the uploaded template file object
    heap,            \* document objects: object id -> document
    template_doc,    \* id of the document scanned for fields (0: none yet)
    output_doc,      \* id of the document handed to fill_template (0: none yet)
    template_fields, \* list returned by extract_template_fields
    extracted_data,  \* dict returned by extract_key_values_from_reports
    narratives,      \* dict returned by generate_report_narrative
    response,        \* text under parse / last completion returned by call_llm
    calls,           \* requests.post calls made so far, in order
    outcome,         \* per step: "ok", "failed" or "raised"
    before,          \* the document as it was when fill_template was last entered
    replaced         \* the str.replace calls fill_template made in its last run

vars == <<pc, templateBytes, filePos, heap, template_doc, output_doc,
          template_fields, extracted_data, narratives, response, calls,
          outcome, before, replaced>>

(***************************************************************************)
(* Bounds of the model.                                                    *)
(***************************************************************************)
MaxFrags == 2       \* fragments a template's texts are built from, in total
MaxKeys == 2        \* entries of a data mapping given to fill_template
MaxRespFrags == 3   \* fragments an LLM completion is built from
MaxFieldFrags == 3  \* fragments a text scanned for fields is built from

(***************************************************************************)
(* Text.                                                                   *)
(***************************************************************************)
\* Character classes: A-Z, a-z, 0-9, the word characters of the regular
\* expressions, and the bracket characters of the placeholder spellings.
Upper == {"A", "B", "C", "D", "E", "F", "G", "H", "I", "J", "K", "L", "M",
          "N", "O", "P", "Q", "R", "S", "T", "U", "V", "W", "X", "Y", "Z"}
Lower == {"a", "b", "c", "d", "e", "f", "g", "h", "i", "j", "k", "l", "m",
          "n", "o", "p", "q", "r", "s", "t", "u", "v", "w", "x", "y", "z"}
Digits == {"0", "1", "2", "3", "4", "5", "6", "7", "8", "9"}
WordChars == Upper \cup Lower \cup Digits \cup {"_"}
Delims == {"[", "]", "{", "}", "<", ">"}

Last(s) == s[Len(s)]

RECURSIVE Flatten(_)
Flatten(ss) == IF ss = << >> THEN << >> ELSE Head(ss) \o Flatten(Tail(ss))

SeqsUpTo(S, n) == UNION {[1..k -> S] : k \in 0..n}

Range(s) == {s[i] : i \in 1..Len(s)}

\* p occurs in s starting at position i.
MatchAt(s, p, i) ==
    /\ i >= 1
    /\ i + Len(p) - 1 <= Len(s)
    /\ (Len(p) > 0 => s[i] = p[1])
    /\ \A j \in 2..Len(p) : s[i + j - 1] = p[j]

\* Python's  p in s.
Contains(s, p) == \E i \in 1..(Len(s) + 1) : MatchAt(s, p, i)

\* Python's str.replace(p, v) for a non-empty p: the occurrences are found
\* left to right and do not overlap; the result is not searched again.
RECURSIVE ReplaceFrom(_, _, _, _)
ReplaceFrom(s, p, v, i) ==
    IF i > Len(s) THEN << >>
    ELSE IF MatchAt(s, p, i) THEN v \o ReplaceFrom(s, p, v, i + Len(p))
    ELSE <<s[i]>> \o ReplaceFrom(s, p, v, i + 1)

\* str.replace(p, v, 1): only the first occurrence is replaced.
RECURSIVE FirstAt(_, _, _)
FirstAt(s, p, i) ==
    IF i > Len(s) THEN 0
    ELSE IF MatchAt(s, p, i) THEN i
    ELSE FirstAt(s, p, i + 1)

ReplaceFirstOnly(s, p, v) ==
    LET i == FirstAt(s, p, 1)
    IN  IF i = 0 THEN s
        ELSE SubSeq(s, 1, i - 1) \o v \o SubSeq(s, i + Len(p), Len(s))

\* str.replace(p, v), lines 189 and 198: every occurrence is replaced,
\* scanning from the left.
Replace(s, p, v) == ReplaceFrom(s, p, v, 1)

\* Number of occurrences str.replace finds (str.count).
RECURSIVE CountFrom(_, _, _)
CountFrom(s, p, i) ==
    IF i > Len(s) THEN 0
    ELSE IF MatchAt(s, p, i) THEN 1 + CountFrom(s, p, i + Len(p))
    ELSE CountFrom(s, p, i + 1)

Count(s, p) == CountFrom(s, p, 1)

(***************************************************************************)
(* Values of a decoded JSON object and their use in fill_template.         *)
(***************************************************************************)
StrVal(s) == [type |-> "str", s |-> s, n |-> 0]
IntVal(n) == [type |-> "int", s |-> << >>, n |-> n]
NullVal == [type |-> "null", s |-> << >>, n |-> 0]

Digit(d) == <<"0", "1", "2", "3", "4", "5", "6", "7", "8", "9">>[d + 1]

RECURSIVE Decimal(_)
Decimal(n) == IF n < 10 THEN <<Digit(n)>> ELSE Decimal(n \div 10) \o <<Digit(n % 10)>>

\* Python truthiness:  value  in  "str(value) if value else ''".
Truthy(v) ==
    CASE v.type = "str" -> v.s # << >>
      [] v.type = "int" -> v.n # 0
      [] OTHER -> FALSE

\* Python's str(value).
PyStr(v) ==
    CASE v.type = "str" -> v.s
      [] v.type = "int" -> Decimal(v.n)
      [] OTHER -> <<"N", "o", "n", "e">>

\* A plausible slip: the value is stringified without the falsy test.
ValueTextNoFalsy(v) == PyStr(v)

\* str(value) if value else ""
ValueText(v) == IF Truthy(v) THEN PyStr(v) ELSE << >>

(***************************************************************************)
(* fill_template.                                                          *)
(***************************************************************************)
XM8 == <<"X", "M", "8", "_">>

\* placeholders = [f"[{key}]", f"[XM8_{key}]", f"{{{key}}}", f"<<{key}>>"]
Placeholders(key) ==
    << <<"[">> \o key \o <<"]">>,
       <<"[">> \o XM8 \o key \o <<"]">>,
       <<"{">> \o key \o <<"}">>,
       <<"<", "<">> \o key \o <<">", ">">> >>

\* One pass of the innermost loop body over the text of one paragraph or
\* cell: the placeholder is replaced when it is in the text.
ReplaceStep(text, placeholder, value) ==
    IF Contains(text, placeholder)
    THEN Replace(text, placeholder, ValueText(value))
    ELSE text

\* A slip: the loop over the keys is left (break) after the first key that
\* changed the text.
RECURSIVE FillFromBreak(_, _, _, _)
FillFromBreak(text, data, k, j) ==
    IF k > Len(data) THEN text
    ELSE LET ph == Placeholders(data[k].key)
             v == data[k].value
             t == ReplaceStep(ReplaceStep(ReplaceStep(ReplaceStep(
                      text, ph[1], v), ph[2], v), ph[3], v), ph[4], v)
         IN  IF t # text THEN t ELSE FillFromBreak(text, data, k + 1, 1)

\* The two inner loops over one text, in the order the code takes them: the
\* items of data in iteration order, and per key its four spellings.  The
\* result is the text the paragraph or cell holds when the loops are done.
RECURSIVE FillFrom(_, _, _, _)
FillFrom(text, data, k, j) ==
    IF k > Len(data) THEN text
    ELSE IF j > 4 THEN FillFrom(text, data, k + 1, 1)
    ELSE FillFrom(ReplaceStep(text, Placeholders(data[k].key)[j], data[k].value),
                  data, k, j + 1)

\* A filler that also blanks the placeholder [U], which has no key.
FillTextClearLeftover(text, data) ==
    Replace(FillFrom(text, data, 1, 1), <<"[", "U", "]">>, << >>)

FillText(text, data) == FillFrom(text, data, 1, 1)

\* The str.replace calls the loops make on one text, in order: for each, the
\* key and value, the placeholder, and the text before and after the call.
RECURSIVE LogFrom(_, _, _, _)
LogFrom(text, data, k, j) ==
    IF k > Len(data) THEN << >>
    ELSE IF j > 4 THEN LogFrom(text, data, k + 1, 1)
    ELSE IF ~Contains(text, Placeholders(data[k].key)[j]) THEN LogFrom(text, data, k, j + 1)
    ELSE CHOOSE log \in
            { << [key |-> data[k].key, value |-> data[k].value,
                  placeholder |-> Placeholders(data[k].key)[j],
                  before |-> text, after |-> after] >>
              \o LogFrom(after, data, k, j + 1) :
                after \in {ReplaceStep(text, Placeholders(data[k].key)[j], data[k].value)} } :
            TRUE

\* Every cell text of a document, table by table, row by row.
CellTexts(doc) ==
    Flatten([t \in 1..Len(doc.tables) |-> Flatten(doc.tables[t])])

\* All texts of a document: its paragraphs, then its cells.
Texts(doc) == doc.paragraphs \o CellTexts(doc)

\* fill_template(template_doc, extracted_data, narratives): the document
\* after the call.  narratives is not used by the code.
FillDoc(doc, data) ==
    [paragraphs |-> [i \in 1..Len(doc.paragraphs) |-> FillText(doc.paragraphs[i], data)],
     tables |-> [t \in 1..Len(doc.tables) |->
                   [r \in 1..Len(doc.tables[t]) |->
                      [c \in 1..Len(doc.tables[t][r]) |->
                         FillText(doc.tables[t][r][c], data)]]]]

\* The str.replace calls made by one run of fill_template, per text of the
\* document (paragraphs, then cells).
ReplaceLog(doc, data) ==
    CHOOSE log \in {[i \in 1..Len(texts) |-> LogFrom(texts[i], data, 1, 1)] :
                       texts \in {Texts(doc)}} : TRUE

(***************************************************************************)
(* Documents.  A document is its paragraphs' texts and its tables' cell    *)
(* texts (python-docx's paragraphs, tables, rows, cells).                  *)
(***************************************************************************)
Reverse(s) == [i \in 1..Len(s) |-> s[Len(s) + 1 - i]]

\* Fragments the texts of the templates are built from: the four spellings
\* fill_template writes, a placeholder of a field nobody fills, stray
\* brackets (which nest a placeholder in another when concatenated) and
\* plain text beside a placeholder.
TplFrags ==
    { <<"[", "A", "]">>,
      <<"[", "X", "M", "8", "_", "A", "]">>,
      <<"x", "{", "A", "}">>,
      <<"<", "<", "B", ">", ">">>,
      <<"[", "U", "]">>,
      <<"[", "[", "A", "]">>,
      <<"B", "]">> }

\* The document built from a sequence of fragments: one paragraph holding
\* them in order and one table of one cell holding them in reverse order.
DocOf(frags) ==
    [paragraphs |-> <<Flatten(frags)>>,
     tables |-> << << <<Flatten(Reverse(frags))>> >> >>]

Templates == {DocOf(f) : f \in SeqsUpTo(TplFrags, MaxFrags)}

(***************************************************************************)
(* Data mappings.  A dict is the sequence of its items in iteration        *)
(* (insertion) order, with distinct keys.                                  *)
(***************************************************************************)
KeyA == <<"A">>
KeyB == <<"B">>
KeyXA == XM8 \o KeyA
KeyBr == <<"A", "]", "[", "A">>

Item(k, v) == [key |-> k, value |-> v]

\* Entries an LLM answer may hold: strings (empty, plain, placeholder-like),
\* numbers (zero and non-zero) and null; a key and its XM8_ variant; a key
\* that itself holds brackets.
Items ==
    { Item(KeyA, StrVal(<<"1", "2">>)),
      Item(KeyA, StrVal(<< >>)),
      Item(KeyB, StrVal(<<"[", "A", "]">>)),
      Item(KeyB, NullVal),
      Item(KeyXA, IntVal(12)),
      Item(KeyBr, IntVal(0)) }

Keys(data) == {data[i].key : i \in 1..Len(data)}

IsDict(data) == \A i, j \in 1..Len(data) : data[i].key = data[j].key => i = j

Dicts == {d \in SeqsUpTo(Items, MaxKeys) : IsDict(d)}

(***************************************************************************)
(* Harness of fill_template: a document and a data mapping are drawn, and  *)
(* fill_template is run on the document, then run again on its result.     *)
(***************************************************************************)
NoDoc == [paragraphs |-> << >>, tables |-> << >>]

Idle ==
    /\ filePos = 0
    /\ template_doc = 0
    /\ template_fields = << >>
    /\ narratives = << >>
    /\ response = << >>
    /\ calls = << >>
    /\ outcome = << >>

InitFill ==
    /\ Idle
    /\ pc = "fill"
    /\ templateBytes \in Templates
    /\ heap = <<templateBytes>>
    /\ output_doc = 1
    /\ extracted_data \in Dicts
    /\ before = NoDoc
    /\ replaced = << >>

\* filled_doc = fill_template(output_doc, extracted_data, narratives): the
\* document object is changed in place.
CallFill ==
    /\ before' = heap[output_doc]
    /\ replaced' = ReplaceLog(heap[output_doc], extracted_data)
    /\ heap' = [heap EXCEPT ![output_doc] = FillDoc(heap[output_doc], extracted_data)]

FillFirst ==
    /\ pc = "fill"
    /\ CallFill
    /\ pc' = "filled"
    /\ UNCHANGED <<templateBytes, filePos, template_doc, output_doc, template_fields,
                   extracted_data, narratives, response, calls, outcome>>

FillAgain ==
    /\ pc = "filled"
    /\ CallFill
    /\ pc' = "refilled"
    /\ UNCHANGED <<templateBytes, filePos, template_doc, output_doc, template_fields,
                   extracted_data, narratives, response, calls, outcome>>

NextFill == FillFirst \/ FillAgain

SpecFill == InitFill /\ [][NextFill]_vars

(***************************************************************************)
(* extract_template_fields.                                                *)
(***************************************************************************)
\* Number of characters of the class cls in s from position i on: what the
\* greedy [..]+ of a pattern takes.
RECURSIVE RunLen(_, _, _)
RunLen(s, i, cls) ==
    IF i <= Len(s) /\ s[i] \in cls THEN 1 + RunLen(s, i + 1, cls) ELSE 0

\* A pattern  open ([cls]+) close  matches at position i.  No character of
\* a class is a character of close, so only the longest run can match.
PatternAt(s, i, pat) ==
    /\ MatchAt(s, pat.open, i)
    /\ RunLen(s, i + Len(pat.open), pat.cls) > 0
    /\ MatchAt(s, pat.close, i + Len(pat.open) + RunLen(s, i + Len(pat.open), pat.cls))

\* re.findall(pattern, text): the captured names of the matches, found left
\* to right, each search resuming after the previous match.
RECURSIVE FindAll(_, _, _)
FindAll(s, i, pat) ==
    IF i > Len(s) THEN << >>
    ELSE IF PatternAt(s, i, pat)
    THEN << SubSeq(s, i + Len(pat.open),
                   i + Len(pat.open) + RunLen(s, i + Len(pat.open), pat.cls) - 1) >>
         \o FindAll(s, i + Len(pat.open) + RunLen(s, i + Len(pat.open), pat.cls)
                         + Len(pat.close), pat)
    ELSE FindAll(s, i + 1, pat)

UpperName == Upper \cup Digits \cup {"_"}

\* The five patterns of lines 42-46.
Patterns ==
    << [open |-> <<"[">>, cls |-> UpperName, close |-> <<"]">>],
       [open |-> <<"[">> \o XM8, cls |-> UpperName, close |-> <<"]">>],
       [open |-> <<"{">>, cls |-> UpperName, close |-> <<"}">>],
       [open |-> <<"<", "<">>, cls |-> UpperName, close |-> <<">", ">">>],
       [open |-> <<"[">>, cls |-> WordChars, close |-> <<"]">>] >>

\* A slip: only the first match of each pattern is kept (re.search).
FieldSetFirstMatch(text) ==
    UNION { IF FindAll(text, 1, Patterns[p]) = << >> THEN {}
            ELSE {Head(FindAll(text, 1, Patterns[p]))} : p \in 1..Len(Patterns) }

\* fields = set(); fields.update(matches) for every pattern.
FieldSet(text) == UNION {Range(FindAll(text, 1, Patterns[p])) : p \in 1..Len(Patterns)}

\* The lists without repetition that hold exactly the elements of S: what
\* list(fields) can be, the order of a set being unspecified.
ListsOf(S) ==
    {l \in [1..Cardinality(S) -> S] : \A i, j \in 1..Cardinality(S) : l[i] = l[j] => i = j}

\* extract_template_fields(template_text): the lists it may return.
ExtractTemplateFields(text) == ListsOf(FieldSet(text))

\* Lines 253-255: the text of the paragraphs, a newline after each.
TemplateText(doc) ==
    Flatten([i \in 1..Len(doc.paragraphs) |-> doc.paragraphs[i] \o <<"\n">>])

(***************************************************************************)
(* Python dicts: item assignment.                                          *)
(***************************************************************************)
HasKey(data, key) == \E i \in 1..Len(data) : data[i].key = key

\* data[key] = value: a new key is appended, an old key keeps its place.
DictSet(data, key, value) ==
    IF HasKey(data, key)
    THEN [i \in 1..Len(data) |-> IF data[i].key = key THEN Item(key, value) ELSE data[i]]
    ELSE Append(data, Item(key, value))

(***************************************************************************)
(* json.loads, on the texts the completions of the model can hold:         *)
(* objects whose values are strings without escapes, integers or null,     *)
(* with optional whitespace.  A decode step gives ok (no JSONDecodeError), *)
(* the position after what it read, and the value read.                    *)
(***************************************************************************)
Whitespace == {" ", "\n", "\t", "\r"}

Bad == [ok |-> FALSE, pos |-> 0, val |-> << >>]

Good(pos, val) == [ok |-> TRUE, pos |-> pos, val |-> val]

CharAt(s, i) == IF i >= 1 /\ i <= Len(s) THEN s[i] ELSE "EOF"

RECURSIVE SkipWs(_, _)
SkipWs(s, i) == IF CharAt(s, i) \in Whitespace THEN SkipWs(s, i + 1) ELSE i

\* Position of the first closing quote at or after i; 0 when a control
\* character or the end of the text comes first.
RECURSIVE QuoteEnd(_, _)
QuoteEnd(s, i) ==
    IF i > Len(s) \/ s[i] \in {"\n", "\t", "\r"} THEN 0
    ELSE IF s[i] = "\"" THEN i
    ELSE QuoteEnd(s, i + 1)

\* A string literal starting at the quote at position i.
ParseString(s, i) ==
    IF CharAt(s, i) # "\"" \/ QuoteEnd(s, i + 1) = 0 THEN Bad
    ELSE Good(QuoteEnd(s, i + 1) + 1, SubSeq(s, i + 1, QuoteEnd(s, i + 1) - 1))

RECURSIVE DigitsLen(_, _)
DigitsLen(s, i) == IF CharAt(s, i) \in Digits THEN 1 + DigitsLen(s, i + 1) ELSE 0

DigitValue(c) == CHOOSE d \in 0..9 : Digit(d) = c

RECURSIVE NumberValue(_)
NumberValue(ds) ==
    IF ds = << >> THEN 0
    ELSE 10 * NumberValue(SubSeq(ds, 1, Len(ds) - 1)) + DigitValue(Last(ds))

\* An integer: 0, or a non-zero digit followed by digits.
ParseNumber(s, i) ==
    IF CharAt(s, i) = "0" THEN Good(i + 1, IntVal(0))
    ELSE Good(i + DigitsLen(s, i), IntVal(NumberValue(SubSeq(s, i, i + DigitsLen(s, i) - 1))))

ParseValue(s, i) ==
    CASE CharAt(s, i) = "\"" ->
            IF ParseString(s, i).ok
            THEN Good(ParseString(s, i).pos, StrVal(ParseString(s, i).val))
            ELSE Bad
      [] CharAt(s, i) \in Digits -> ParseNumber(s, i)
      [] MatchAt(s, <<"n", "u", "l", "l">>, i) -> Good(i + 4, NullVal)
      [] OTHER -> Bad

\* The members of an object from position i on (a key is expected there),
\* added to the dict acc; a later duplicate of a key replaces its value.
RECURSIVE ParseMembers(_, _, _)
ParseMembers(s, i, acc) ==
    LET key == ParseString(s, i)
        colon == SkipWs(s, key.pos)
        val == ParseValue(s, SkipWs(s, colon + 1))
        next == SkipWs(s, val.pos)
    IN  IF ~key.ok \/ CharAt(s, colon) # ":" \/ ~val.ok THEN Bad
        ELSE IF CharAt(s, next) = "}" THEN Good(next + 1, DictSet(acc, key.val, val.val))
        ELSE IF CharAt(s, next) = ","
             THEN ParseMembers(s, SkipWs(s, next + 1), DictSet(acc, key.val, val.val))
        ELSE Bad

\* An object starting at the brace at position i.
ParseObject(s, i) ==
    IF CharAt(s, i) # "{" THEN Bad
    ELSE IF CharAt(s, SkipWs(s, i + 1)) = "}" THEN Good(SkipWs(s, i + 1) + 1, << >>)
    ELSE ParseMembers(s, SkipWs(s, i + 1), << >>)

\* json.loads(s) for a text that starts with a brace: the object, and
\* nothing but whitespace after it.
JsonLoads(s) ==
    LET obj == ParseObject(s, SkipWs(s, 1))
    IN  IF obj.ok /\ SkipWs(s, obj.pos) > Len(s) THEN obj ELSE Bad

(***************************************************************************)
(* The response parser of extract_key_values_from_reports and of           *)
(* generate_report_narrative.  A response is None or a text.               *)
(***************************************************************************)
None == [none |-> TRUE, text |-> << >>]

Text(t) == [none |-> FALSE, text |-> t]

RECURSIVE FirstIndex(_, _, _)
FirstIndex(s, c, i) ==
    IF i > Len(s) THEN 0 ELSE IF s[i] = c THEN i ELSE FirstIndex(s, c, i + 1)

RECURSIVE LastIndex(_, _, _)
LastIndex(s, c, i) ==
    IF i < 1 THEN 0 ELSE IF s[i] = c THEN i ELSE LastIndex(s, c, i - 1)

\* re.search(r'\{[\s\S]*\}', response): the leftmost opening brace that has
\* a closing brace after it, up to the last closing brace of the text.
BraceSpan(t) ==
    LET open == FirstIndex(t, "{", 1)
        close == LastIndex(t, "}", Len(t))
    IN  IF open > 0 /\ close > open
        THEN [found |-> TRUE, span |-> SubSeq(t, open, close)]
        ELSE [found |-> FALSE, span |-> << >>]

\* What a function returns: a value, or an exception that leaves it.
Returned(v) == [raised |-> FALSE, value |-> v]
Raised == [raised |-> TRUE, value |-> << >>]

\* A slip: json.loads is given the whole response, not the brace span.
ParseResponseWhole(resp) ==
    IF resp.none \/ resp.text = << >> THEN Returned(<< >>)
    ELSE IF ~BraceSpan(resp.text).found THEN Returned(<< >>)
    ELSE IF JsonLoads(resp.text).ok THEN Returned(JsonLoads(resp.text).val)
    ELSE Returned(<< >>)

\* A slip: json.loads is called outside the try block.
ParseResponseNoTry(resp) ==
    IF resp.none \/ resp.text = << >> THEN Returned(<< >>)
    ELSE IF ~BraceSpan(resp.text).found THEN Returned(<< >>)
    ELSE IF JsonLoads(BraceSpan(resp.text).span).ok
         THEN Returned(JsonLoads(BraceSpan(resp.text).span).val)
    ELSE Raised

\* Lines 132-140, the data-extraction path: an absent or empty response, a
\* response without a brace span and a span json.loads rejects all give {};
\* the JSONDecodeError is caught (and a warning shown).
ParseResponse(resp) ==
    IF resp.none \/ resp.text = << >> THEN Returned(<< >>)
    ELSE IF ~BraceSpan(resp.text).found THEN Returned(<< >>)
    ELSE IF JsonLoads(BraceSpan(resp.text).span).ok
         THEN Returned(JsonLoads(BraceSpan(resp.text).span).val)
    ELSE Returned(<< >>)

\* Lines 171-179, the narrative path: the same, with a bare except that
\* passes silently.
ParseNarrative(resp) ==
    IF resp.none \/ resp.text = << >> THEN Returned(<< >>)
    ELSE IF ~BraceSpan(resp.text).found THEN Returned(<< >>)
    ELSE IF JsonLoads(BraceSpan(resp.text).span).ok
         THEN Returned(JsonLoads(BraceSpan(resp.text).span).val)
    ELSE Returned(<< >>)

(***************************************************************************)
(* Vocabulary of the properties of fill_template.                          *)
(***************************************************************************)

\* Number of word characters of s from position i on.
RECURSIVE NameLen(_, _)
NameLen(s, i) ==
    IF i <= Len(s) /\ s[i] \in WordChars THEN 1 + NameLen(s, i + 1) ELSE 0

\* Position of the last character of the placeholder token [N], {N} or <<N>>
\* (N one or more word characters) that starts at position i; 0 if none does.
TokenEnd(s, i) ==
    LET n1 == NameLen(s, i + 1)
        n2 == NameLen(s, i + 2)
    IN  CASE s[i] = "[" /\ n1 > 0 /\ MatchAt(s, <<"]">>, i + 1 + n1) -> i + 1 + n1
          [] s[i] = "{" /\ n1 > 0 /\ MatchAt(s, <<"}">>, i + 1 + n1) -> i + 1 + n1
          [] s[i] = "<" /\ MatchAt(s, <<"<">>, i + 1) /\ n2 > 0
                        /\ MatchAt(s, <<">", ">">>, i + 2 + n2) -> i + 3 + n2
          [] OTHER -> 0

\* Every bracket character of s from position i on belongs to a placeholder
\* token: no stray or nested brackets.
RECURSIVE FlatFrom(_, _)
FlatFrom(s, i) ==
    IF i > Len(s) THEN TRUE
    ELSE IF s[i] \notin Delims THEN FlatFrom(s, i + 1)
    ELSE TokenEnd(s, i) > 0 /\ FlatFrom(s, TokenEnd(s, i) + 1)

IsFlat(s) == FlatFrom(s, 1)

FlatDoc(doc) == \A i \in 1..Len(Texts(doc)) : IsFlat(Texts(doc)[i])

\* The keys of data are made of letters, digits and underscores only.
WordKeys(data) == \A i \in 1..Len(data) : Range(data[i].key) \subseteq WordChars

\* No key of data holds a bracket character.
PlainKeys(data) == \A i \in 1..Len(data) : Range(data[i].key) \cap Delims = {}

\* No value of data, as fill_template writes it, holds a bracket character.
PlainValues(data) ==
    \A i \in 1..Len(data) : Range(ValueText(data[i].value)) \cap Delims = {}

\* Some spelling of some key of data occurs in the text.
SpellingIn(text, data) ==
    \E i \in 1..Len(data) : \E j \in 1..4 : Contains(text, Placeholders(data[i].key)[j])

Filled == heap[output_doc]

(***************************************************************************)
(* C1 as claimed: a second run of fill_template with the same data leaves  *)
(* every paragraph and every cell as the first run left it.                *)
(***************************************************************************)
C1_SecondRunNoOp == pc = "refilled" => Filled = before

\* The documents and data for which the second run is a no-op: brackets
\* occur in the template only as placeholder tokens, keys are words, and no
\* written value holds a bracket.
C1_Regular ==
    /\ FlatDoc(templateBytes)
    /\ WordKeys(extracted_data)
    /\ PlainValues(extracted_data)

(***************************************************************************)
(* C1 amended: for a template whose brackets occur only as placeholder     *)
(* tokens, keys of letters, digits and underscores and values without      *)
(* brackets, no text holds a spelling of a key of data after the first     *)
(* run, and the second run changes no text.                                *)
(***************************************************************************)
C1_IdempotentOnRegular ==
    C1_Regular =>
        /\ pc = "filled" =>
              \A i \in 1..Len(Texts(Filled)) : ~SpellingIn(Texts(Filled)[i], extracted_data)
        /\ pc = "refilled" => Filled = before /\ replaced = [i \in 1..Len(Texts(Filled)) |-> << >>]

\* A regular template with two placeholders of a key has been filled twice.
C1_Witness ==
    /\ pc = "refilled"
    /\ C1_Regular
    /\ \E i \in 1..Len(Texts(templateBytes)) : \E k \in 1..Len(extracted_data) :
          Count(Texts(templateBytes)[i], Placeholders(extracted_data[k].key)[1]) >= 2
    /\ Filled # templateBytes

(***************************************************************************)
(* C2.  Placeholders of fields that data does not name.                    *)
(***************************************************************************)
FieldNames == { <<"A">>, <<"B">>, <<"U">>, XM8 \o <<"A">> }

\* The three bracketings of a field name in a template.
Bracketings(name) ==
    { <<"[">> \o name \o <<"]">>,
      <<"{">> \o name \o <<"}">>,
      <<"<", "<">> \o name \o <<">", ">">> }

\* The name is no key of data, nor XM8_ followed by a key of data.
Unmatched(name, data) ==
    /\ name \notin Keys(data)
    /\ \A k \in Keys(data) : name # XM8 \o k

\* Every occurrence of a placeholder with an unmatched name is still in the
\* text after the run; a text holding no spelling of any key is unchanged.
UnmatchedKept ==
    \A i \in 1..Len(Texts(before)) :
        LET old == Texts(before)[i]
            new == Texts(Filled)[i]
        IN  /\ \A name \in FieldNames : \A ph \in Bracketings(name) :
                  Unmatched(name, extracted_data) => Count(new, ph) >= Count(old, ph)
            /\ ~SpellingIn(old, extracted_data) => new = old

(***************************************************************************)
(* C2 as claimed: for every document and every data mapping, fill_template *)
(* leaves the placeholders with no matching key in the text, and leaves a  *)
(* text that holds no spelling of a key as it was.                         *)
(***************************************************************************)
C2_UnmatchedKept == pc = "filled" => UnmatchedKept

(***************************************************************************)
(* C2 amended: for data none of whose keys holds a bracket character      *)
(* [ ] { } < >, fill_template leaves the placeholders with no matching key *)
(* in the text; and for all data it leaves a text that holds no spelling   *)
(* of a key as it was.                                                     *)
(***************************************************************************)
C2_UnmatchedKeptPlainKeys ==
    pc = "filled" =>
        /\ PlainKeys(extracted_data) => UnmatchedKept
        /\ \A i \in 1..Len(Texts(before)) :
              ~SpellingIn(Texts(before)[i], extracted_data)
                  => Texts(Filled)[i] = Texts(before)[i]

\* A text held the placeholder [U] beside a placeholder that was filled.
C2_Witness ==
    /\ pc = "filled"
    /\ PlainKeys(extracted_data)
    /\ extracted_data # << >>
    /\ \E i \in 1..Len(Texts(before)) :
          /\ Contains(Texts(before)[i], <<"[", "U", "]">>)
          /\ Contains(Texts(Filled)[i], <<"[", "U", "]">>)
          /\ Texts(Filled)[i] # Texts(before)[i]

Perms(n) == {f \in [1..n -> 1..n] : \A i, j \in 1..n : f[i] = f[j] => i = j}

Reorder(data, f) == [i \in 1..Len(data) |-> data[f[i]]]

\* fill_template gives the same document whatever the order of the keys.
OrderFree ==
    \A f \in Perms(Len(extracted_data)) :
        FillDoc(before, Reorder(extracted_data, f)) = Filled

\* A key and the same key behind XM8_ are written as the same text.
XM8Agree(data) ==
    \A i, j \in 1..Len(data) :
        data[j].key = XM8 \o data[i].key
            => ValueText(data[i].value) = ValueText(data[j].value)

(***************************************************************************)
(* C10 as claimed: for keys of letters, digits and underscores and values  *)
(* without brackets, every order of the keys gives the same texts, also    *)
(* when data holds a key K and the key XM8_K.                              *)
(***************************************************************************)
C10_OrderFree ==
    (pc = "filled" /\ WordKeys(extracted_data) /\ PlainValues(extracted_data))
        => OrderFree

(***************************************************************************)
(* C10 amended: for keys of letters, digits and underscores and values     *)
(* without brackets, every order of the keys gives the same texts,         *)
(* provided the brackets of the template occur only as placeholder tokens  *)
(* and a key K and the key XM8_K, when both are in data, are written as    *)
(* the same text.                                                          *)
(***************************************************************************)
C10_OrderFreeOnRegular ==
    (/\ pc = "filled"
     /\ WordKeys(extracted_data)
     /\ PlainValues(extracted_data)
     /\ FlatDoc(before)
     /\ XM8Agree(extracted_data))
        => OrderFree

\* Data held a key and its XM8_ variant, and both were replaced in one text.
C10_Witness ==
    /\ pc = "filled"
    /\ WordKeys(extracted_data) /\ PlainValues(extracted_data)
    /\ FlatDoc(before) /\ XM8Agree(extracted_data)
    /\ \E i, j \in 1..Len(extracted_data) :
          extracted_data[j].key = XM8 \o extracted_data[i].key
    /\ \E i \in 1..Len(replaced) : \E m, n \in 1..Len(replaced[i]) :
          replaced[i][m].key # replaced[i][n].key

(***************************************************************************)
(* Harness of the response parser: a response is drawn (None, or a text    *)
(* built from fragments of completions) and parsed on the data-extraction  *)
(* path, then on the narrative path.                                       *)
(***************************************************************************)
ObjA == <<"{", "\"", "A", "\"", ":", " ", "\"", "1", "\"", "}">>
OpenB == <<"{", "\"", "B", "\"", ":", "0">>
MoreA == <<",", "\"", "A", "\"", ":", "n", "u", "l", "l">>
Hi == <<"h", "i", " ">>

\* A whole object, an object left open, one more member, single braces and
\* prose.
RespFrags == {ObjA, OpenB, MoreA, <<"}">>, <<"{">>, Hi}

Responses == {None} \cup {Text(Flatten(f)) : f \in SeqsUpTo(RespFrags, MaxRespFrags)}

Result(r) == IF r.raised THEN "raised" ELSE "returned"

InitParse ==
    /\ pc = "parse"
    /\ response \in Responses
    /\ templateBytes = NoDoc
    /\ filePos = 0
    /\ heap = << >>
    /\ template_doc = 0
    /\ output_doc = 0
    /\ template_fields = << >>
    /\ extracted_data = << >>
    /\ narratives = << >>
    /\ calls = << >>
    /\ outcome = << >>
    /\ before = NoDoc
    /\ replaced = << >>

\* The part of extract_key_values_from_reports after call_llm has returned.
ParseData ==
    /\ pc = "parse"
    /\ extracted_data' = ParseResponse(response).value
    /\ outcome' = Append(outcome, Result(ParseResponse(response)))
    /\ pc' = "parsed_data"
    /\ UNCHANGED <<templateBytes, filePos, heap, template_doc, output_doc,
                   template_fields, narratives, response, calls, before, replaced>>

\* The part of generate_report_narrative after call_llm has returned.
ParseNarr ==
    /\ pc = "parsed_data"
    /\ narratives' = ParseNarrative(response).value
    /\ outcome' = Append(outcome, Result(ParseNarrative(response)))
    /\ pc' = "parsed"
    /\ UNCHANGED <<templateBytes, filePos, heap, template_doc, output_doc,
                   template_fields, extracted_data, response, calls, before, replaced>>

NextParse == ParseData \/ ParseNarr

SpecParse == InitParse /\ [][NextParse]_vars

(***************************************************************************)
(* Vocabulary of the properties of the parser.                             *)
(***************************************************************************)
\* The text holds an opening brace with a closing brace somewhere after it.
HasBraceSpan(t) == \E i, j \in 1..Len(t) : i < j /\ t[i] = "{" /\ t[j] = "}"

\* From the first opening brace to the last closing brace.
GreedySpan(t) ==
    SubSeq(t, CHOOSE i \in 1..Len(t) : t[i] = "{" /\ \A h \in 1..(i - 1) : t[h] # "{",
              CHOOSE j \in 1..Len(t) : t[j] = "}" /\ \A h \in (j + 1)..Len(t) : t[h] # "}")

\* The response is absent, or holds no brace span, or its span is not
\* well-formed JSON.
Malformed(resp) ==
    \/ resp.none
    \/ resp.text = << >>
    \/ ~HasBraceSpan(resp.text)
    \/ ~JsonLoads(GreedySpan(resp.text)).ok

\* t[i..j] is a well-formed JSON object.
ObjectAt(t, i, j) ==
    /\ i < j /\ t[i] = "{" /\ t[j] = "}"
    /\ JsonLoads(SubSeq(t, i, j)).ok

FieldFrags ==
    { <<"[", "A", "]">>,
      <<"{", "A", "}">>,
      <<"<", "<", "A", ">", ">">>,
      <<"[", "X", "M", "8", "_", "B", "]">>,
      <<"[", "a", "1", "]">>,
      <<"{", "b", "}">>,
      <<"[">>,
      <<"x", " ">> }

InitFields ==
    /\ pc = "scan"
    /\ templateBytes \in {DocOf(f) : f \in SeqsUpTo(FieldFrags, MaxFieldFrags)}
    /\ heap = <<templateBytes>>
    /\ template_doc = 1
    /\ filePos = 0
    /\ output_doc = 0
    /\ template_fields = << >>
    /\ extracted_data = << >>
    /\ narratives = << >>
    /\ response = None
    /\ calls = << >>
    /\ outcome = << >>
    /\ before = NoDoc
    /\ replaced = << >>

\* template_fields = extract_template_fields(template_text)
ScanFields ==
    /\ pc = "scan"
    /\ template_fields' \in ExtractTemplateFields(TemplateText(heap[template_doc]))
    /\ pc' = "scanned"
    /\ UNCHANGED <<templateBytes, filePos, heap, template_doc, output_doc, extracted_data,
                   narratives, response, calls, outcome, before, replaced>>

NextFields == ScanFields

SpecFields == InitFields /\ [][NextFields]_vars

\* All texts that occur in s.
Substrings(s) == {SubSeq(s, i, j) : i \in 1..Len(s), j \in 1..Len(s)}

\* The name is enclosed in the text by one of the five spellings: [NAME],
\* [XM8_NAME], {NAME}, <<NAME>> for an upper-case name, [name] for a name of
\* either case.
Enclosed(name, text) ==
    /\ name # << >>
    /\ \/ /\ Range(name) \subseteq UpperName
          /\ \E j \in 1..4 : Contains(text, Placeholders(name)[j])
       \/ /\ Range(name) \subseteq WordChars
          /\ Contains(text, Placeholders(name)[1])

(***************************************************************************)
(* C6: the list extract_template_fields returns holds no name twice and    *)
(* holds exactly the names enclosed in the text by one of the five         *)
(* spellings; a name spelled [A], {A} and <<A>> is in it once; a text      *)
(* without bracket characters gives the empty list.                        *)
(***************************************************************************)
C6_FieldsExact ==
    pc = "scanned" =>
        LET text == TemplateText(templateBytes)
        IN  /\ \A i, j \in 1..Len(template_fields) :
                  template_fields[i] = template_fields[j] => i = j
            /\ Range(template_fields) =
                  {name \in Substrings(text) : Enclosed(name, text)}
            /\ (\A j \in {1, 3, 4} : Contains(text, Placeholders(<<"A">>)[j]))
                  => Cardinality({i \in 1..Len(template_fields) :
                                     template_fields[i] = <<"A">>}) = 1
            /\ Range(text) \cap Delims = {} => template_fields = << >>

\* A text spelling A as [A], {A} and <<A>> has been scanned.
C6_Witness ==
    /\ pc = "scanned"
    /\ \A j \in {1, 3, 4} :
          Contains(TemplateText(templateBytes), Placeholders(<<"A">>)[j])
    /\ template_fields = << <<"A">> >>

(***************************************************************************)
(* The run started by the process button (lines 233-329).  The button is   *)
(* enabled: a template and reports are uploaded and the API key is set, so *)
(* call_llm never takes its early return.  Each script run starts with no  *)
(* document objects; the uploaded file stays.                              *)
(***************************************************************************)
DateKey == <<"D", "A", "T", "E", "_", "C", "U", "R", "R", "E", "N", "T">>

\* Fragments of the uploaded templates of a run.
RunFrags ==
    { <<"[", "A", "]">>,
      <<"<", "<", "B", ">", ">">>,
      <<"[">> \o DateKey \o <<"]">>,
      <<"[">> \o XM8 \o DateKey \o <<"]">> }

Uploads == {DocOf(f) : f \in SeqsUpTo(RunFrags, MaxFrags)}

\* What the endpoint may do with a request: answer with a completion, or
\* fail (non-2xx status, network error, timeout).
Completions ==
    { ObjA, OpenB \o MoreA \o <<"}">>, Hi, OpenB \o Hi \o <<"}">> }

Answers == {[ok |-> TRUE, content |-> c] : c \in Completions}
              \cup {[ok |-> FALSE, content |-> << >>]}

\* The days datetime.now() may fall on during step 5.
Days == << [y |-> 2026, m |-> 11, d |-> 5], [y |-> 2026, m |-> 11, d |-> 6] >>

Pad2(n) == IF n < 10 THEN <<"0">> \o Decimal(n) ELSE Decimal(n)

\* strftime("%m/%d/%Y")
Strftime(day) == Pad2(day.m) \o <<"/">> \o Pad2(day.d) \o <<"/">> \o Decimal(day.y)

\* A slip: the exception of a failed request leaves call_llm.
CallLlmNoTry(answer) == IF answer.ok THEN Returned(Text(answer.content)) ELSE Raised

\* call_llm, lines 74-85: the completion, or None when the request failed.
CallLlm(answer) ==
    IF answer.ok THEN Returned(Text(answer.content)) ELSE Returned(None)

\* A slip: a request is sent again at once (a retry).
PostTwice(log, step) == Append(Append(log, step), step)

\* requests.post, lines 75-80: one request per call of call_llm.
Post(log, step) == Append(log, step)

\* A slip: the object loaded for scanning is used again.
DocumentShared(objects, bytes) ==
    IF objects = << >> THEN [heap |-> <<bytes>>, id |-> 1]
    ELSE [heap |-> objects, id |-> Len(objects)]

\* Document(template_file): a new document object holding what the bytes
\* of the upload decode to.
Document(objects, bytes) == [heap |-> Append(objects, bytes), id |-> Len(objects) + 1]

InitRun ==
    /\ pc = "idle"
    /\ templateBytes \in Uploads
    /\ filePos = 0
    /\ heap = << >>
    /\ template_doc = 0
    /\ output_doc = 0
    /\ template_fields = << >>
    /\ extracted_data = << >>
    /\ narratives = << >>
    /\ response = None
    /\ calls = << >>
    /\ outcome = << >>
    /\ before = NoDoc
    /\ replaced = << >>

\* The button is clicked: steps 1 and 2 (lines 237-261).  The reports' text
\* only enters the prompts.  The template is read from position 0 into a new
\* object and its paragraphs are scanned for fields.
Process ==
    /\ pc \in {"idle", "done", "aborted"}
    /\ heap' = Document(<< >>, templateBytes).heap
    /\ template_doc' = Document(<< >>, templateBytes).id
    /\ filePos' = 1
    /\ template_fields' \in ExtractTemplateFields(TemplateText(templateBytes))
    /\ output_doc' = 0
    /\ extracted_data' = << >>
    /\ narratives' = << >>
    /\ response' = None
    /\ calls' = << >>
    /\ outcome' = << >>
    /\ before' = NoDoc
    /\ replaced' = << >>
    /\ pc' = "extract_call"
    /\ UNCHANGED templateBytes

\* Step 3, line 130: call_llm posts the extraction request.
ExtractSend ==
    /\ pc = "extract_call"
    /\ calls' = Post(calls, "extract")
    /\ pc' = "extract_wait"
    /\ UNCHANGED <<templateBytes, filePos, heap, template_doc, output_doc, template_fields,
                   extracted_data, narratives, response, outcome, before, replaced>>

\* Step 3, lines 81-85 and 132-140: the request ends, call_llm returns and
\* the response is parsed.  An exception that leaves the step ends the run.
ExtractReturn ==
    /\ pc = "extract_wait"
    /\ \E answer \in Answers :
          LET got == CallLlm(answer)
              parsed == ParseResponse(got.value)
          IN  IF got.raised \/ parsed.raised
              THEN /\ pc' = "aborted"
                   /\ outcome' = Append(outcome, "raised")
                   /\ UNCHANGED <<response, extracted_data>>
              ELSE /\ pc' = "narrative_call"
                   /\ response' = got.value
                   /\ extracted_data' = parsed.value
                   /\ outcome' = Append(outcome, IF answer.ok THEN "ok" ELSE "failed")
    /\ UNCHANGED <<templateBytes, filePos, heap, template_doc, output_doc, template_fields,
                   narratives, calls, before, replaced>>

\* Step 4, line 169: call_llm posts the narrative request.
NarrativeSend ==
    /\ pc = "narrative_call"
    /\ calls' = Post(calls, "narrative")
    /\ pc' = "narrative_wait"
    /\ UNCHANGED <<templateBytes, filePos, heap, template_doc, output_doc, template_fields,
                   extracted_data, narratives, response, outcome, before, replaced>>

\* Step 4, lines 81-85 and 171-179.
NarrativeReturn ==
    /\ pc = "narrative_wait"
    /\ \E answer \in Answers :
          LET got == CallLlm(answer)
              parsed == ParseNarrative(got.value)
          IN  IF got.raised \/ parsed.raised
              THEN /\ pc' = "aborted"
                   /\ outcome' = Append(outcome, "raised")
                   /\ UNCHANGED <<response, narratives>>
              ELSE /\ pc' = "fill"
                   /\ response' = got.value
                   /\ narratives' = parsed.value
                   /\ outcome' = Append(outcome, IF answer.ok THEN "ok" ELSE "failed")
    /\ UNCHANGED <<templateBytes, filePos, heap, template_doc, output_doc, template_fields,
                   extracted_data, calls, before, replaced>>

\* Step 5, lines 287-299: the template is read again from position 0 into
\* a new object, the two date keys are set, and fill_template fills the new
\* object in place.
FillOutput ==
    /\ pc = "fill"
    /\ \E i, j \in 1..Len(Days) :
          /\ i <= j
          /\ LET loaded == Document(heap, templateBytes)
                 data == DictSet(DictSet(extracted_data, DateKey, StrVal(Strftime(Days[i]))),
                                 XM8 \o DateKey, StrVal(Strftime(Days[j])))
             IN  /\ output_doc' = loaded.id
                 /\ extracted_data' = data
                 /\ before' = loaded.heap[loaded.id]
                 /\ replaced' = ReplaceLog(loaded.heap[loaded.id], data)
                 /\ heap' = [loaded.heap EXCEPT ![loaded.id] = FillDoc(loaded.heap[loaded.id], data)]
    /\ filePos' = 1
    /\ pc' = "done"
    /\ UNCHANGED <<templateBytes, template_doc, template_fields, narratives, response,
                   calls, outcome>>

Next == Process \/ ExtractSend \/ ExtractReturn \/ NarrativeSend \/ NarrativeReturn
           \/ FillOutput

Spec == InitRun /\ [][Next]_vars

(***************************************************************************)
(* Vocabulary of the properties of a run.                                  *)
(***************************************************************************)
\* The data-extraction call of this run has failed.
ExtractFailed == Len(outcome) >= 1 /\ outcome[1] = "failed"

\* The narrative call of this run has failed.
NarrativeFailed == Len(outcome) >= 2 /\ outcome[2] = "failed"

\* The run goes on after a failed call: it has not been ended by an
\* exception, the failing step has left an empty mapping, and at the end
\* both calls have been made and the output document is there.
GoesOnAfterFailure ==
    /\ pc # "aborted"
    /\ (ExtractFailed /\ pc \in {"narrative_call", "narrative_wait", "fill"})
          => extracted_data = << >>
    /\ NarrativeFailed => narratives = << >>
    /\ (pc = "done" /\ (ExtractFailed \/ NarrativeFailed))
          => Len(calls) = 2 /\ output_doc # 0 /\ before = templateBytes

\* The spellings of the two date keys.
DateSpellings ==
    Range(Placeholders(DateKey)) \cup Range(Placeholders(XM8 \o DateKey))

(***************************************************************************)
(* C7 as claimed: after a failed LLM call the run goes on to the output    *)
(* document, the mapping handed to fill_template is empty, and the output  *)
(* document holds the template's texts with every placeholder unfilled.    *)
(***************************************************************************)
C7_FailureLeavesTemplate ==
    /\ GoesOnAfterFailure
    /\ (pc = "done" /\ ExtractFailed) => extracted_data = << >> /\ Filled = templateBytes

(***************************************************************************)
(* C7 amended: after a failed LLM call the run goes on to the output       *)
(* document and the failing step yields an empty mapping; when the         *)
(* data-extraction call failed, the mapping handed to fill_template holds  *)
(* exactly the two date keys DATE_CURRENT and XM8_DATE_CURRENT, and the    *)
(* output document retains every placeholder of the template except the    *)
(* spellings of these two keys, which are filled with the date.            *)
(***************************************************************************)
C7_FailureLeavesAllButDate ==
    /\ GoesOnAfterFailure
    /\ (pc = "done" /\ ExtractFailed) =>
          /\ Len(extracted_data) = 2
          /\ Keys(extracted_data) = {DateKey, XM8 \o DateKey}
          /\ \A i \in 1..Len(Texts(templateBytes)) :
                LET old == Texts(templateBytes)[i]
                    new == Texts(Filled)[i]
                IN  /\ \A f \in RunFrags :
                          f \notin DateSpellings => Count(new, f) = Count(old, f)
                    /\ \A ph \in DateSpellings : ~Contains(new, ph)
                    /\ (\A ph \in DateSpellings : ~Contains(old, ph)) => new = old

\* A run whose extraction call failed has produced its output from a
\* template that holds a date placeholder and another placeholder.
C7_Witness ==
    /\ pc = "done"
    /\ ExtractFailed
    /\ Contains(Texts(templateBytes)[1], <<"[", "A", "]">>)
    /\ Contains(Texts(templateBytes)[1], <<"[">> \o DateKey \o <<"]">>)
    /\ Contains(Texts(Filled)[1], <<"[", "A", "]">>)
    /\ Filled # templateBytes

(***************************************************************************)
(* C8: in a run exactly two requests are sent, the extraction request      *)
(* then the narrative request, each once; the second is sent only when the *)
(* first call has ended, whether it succeeded or failed; fill_template     *)
(* runs only when both calls have ended.                                   *)
(***************************************************************************)
C8_TwoCallsInOrder ==
    /\ calls \in {<< >>, <<"extract">>, <<"extract", "narrative">>}
    /\ Len(outcome) <= Len(calls)
    /\ Len(calls) <= Len(outcome) + 1
    /\ (output_doc # 0 \/ pc \in {"fill", "done"}) => Len(outcome) = 2
    /\ pc = "done" => calls = <<"extract", "narrative">>
    /\ (Len(outcome) >= 1 /\ pc = "narrative_wait") => calls = <<"extract", "narrative">>

\* A run whose first call failed has made the second call and filled.
C8_Witness ==
    /\ pc = "done"
    /\ outcome = <<"failed", "ok">>
    /\ calls = <<"extract", "narrative">>

(***************************************************************************)
(* C9: a run loads the template twice into two distinct document objects;  *)
(* the object scanned for fields always holds the uploaded template's      *)
(* texts, and the object handed to fill_template held them when            *)
(* fill_template was entered.                                              *)
(***************************************************************************)
C9_TwoLoads ==
    /\ template_doc # 0 => heap[template_doc] = templateBytes
    /\ output_doc # 0 =>
          /\ output_doc # template_doc
          /\ template_doc # 0
          /\ Len(heap) = 2
          /\ before = templateBytes
          /\ heap[output_doc] = FillDoc(templateBytes, extracted_data)

\* The output document has been filled and differs from the scanned one.
C9_Witness ==
    /\ pc = "done"
    /\ heap[output_doc] # templateBytes
    /\ heap[template_doc] = templateBytes
    /\ template_fields # << >>

====
